---- MODULE Spec2Model ----
(***************************************************************************)
(* Model of redhat.py: the on-disk FAISS index cache (save_faiss_index,    *)
(* load_faiss_index, embed_file), the startup hook that sets the           *)
(* process-wide retriever, and the /redhat/query endpoint (query_doc,      *)
(* process_query, query_ollama).                                           *)
(*                                                                         *)
(* One server process runs at a time.  It can stop at any step and be      *)
(* started again; the cache directory survives, process memory does not.   *)
(* StartupSpec explores the cache and the startup path for every source    *)
(* document; ServeSpec adds the query requests.                            *)
(***************************************************************************)
EXTENDS Integers, Sequences, FiniteSets, TLC

\* ------------------------------------------------------------------ bounds
MaxChunks == 2      \* longest source document, in chunks
NumTexts  == 2      \* distinct chunk / query texts
MaxStarts == 3      \* process starts explored
NumReqs   == 2      \* query requests per process

Texts == 1..NumTexts
Reqs  == 1..NumReqs

\* every non-empty document of at most MaxChunks chunks
SeqsUpTo(S, n) == UNION {[1..k -> S] : k \in 1..n}
Documents == SeqsUpTo(Texts, MaxChunks)

\* ------------------------------------------------------------- the values
None   == [kind |-> "None"]
NoFile == [exists |-> FALSE]

ModelName == "/home/osslab/mumul_dev/bge-m3"

\* HuggingFaceEmbeddings(...) wrapped by CacheBackedEmbeddings: every call
\* of embed_file constructs a new provider object (inst = process start).
HuggingFaceEmbeddings(inst) == [kind |-> "provider", model |-> ModelName, inst |-> inst]

\* the embedding of a text: a one-dimensional vector fixed by the text
embed_query(provider, text) == <<text>>

Abs(x) == IF x < 0 THEN -x ELSE x
Distance(u, v) == Abs(u[1] - v[1])

VARIABLES
    source,       \* the source document: its chunks in order
    faissFile,    \* <cache dir>/index.faiss
    pklFile,      \* <cache dir>/index.pkl
    byteStore,    \* the other files of the cache dir: LocalFileStore entries
    pc,           \* where the process is
    starts,       \* number of process starts so far
    path,         \* branch taken by embed_file: "none", "hit" or "miss"
    docs,         \* embed_file's docs
    index,        \* load_faiss_index's index
    vectorstore,  \* embed_file's / load_faiss_index's vectorstore
    retriever,    \* the module global
    err,          \* the exception that ended startup
    diskAtCall,   \* history: index.faiss and index.pkl when embed_file was called
    readDoc,      \* history: this process read the source document
    built,        \* history: this process built a new index
    assigned,     \* history: assignments to retriever by this process
    saved,        \* history: argument of the last save_faiss_index that returned
    rpc,          \* per request: where it is
    loop,         \* the request running on the event loop, 0 when none
    prompt,       \* per request: the question, then the prompt to send
    sent,         \* per request: POSTs sent to the inference service
    reply,        \* per request: what the inference service answered
    response,     \* per request: what the endpoint answered
    waiting       \* history, per request: the requests suspended on the
                  \* inference service ever since its handler started

diskVars == <<source, faissFile, pklFile, byteStore>>
procVars == <<pc, starts, path, docs, index, vectorstore, retriever, err,
              diskAtCall, readDoc, built, assigned, saved>>
procRest == <<starts, path, docs, index, vectorstore, retriever, err,
              diskAtCall, readDoc, built, assigned, saved>>
reqVars  == <<rpc, loop, prompt, sent, reply, response, waiting>>
vars     == <<source, faissFile, pklFile, byteStore, pc, starts, path, docs,
              index, vectorstore, retriever, err, diskAtCall, readDoc, built,
              assigned, saved, rpc, loop, prompt, sent, reply, response, waiting>>

\* ------------------------------------------------------------ persistence
\* pickle.dump appends one object to the open file; pickle.load reads the
\* next one and raises when there is no whole object left.
Pickled(obj) == [pickled |-> obj]

\* the three objects save_faiss_index dumps, in file order
PickleOrder(vs) == <<Pickled(vs.index_to_docstore_id),
                     Pickled(vs.docstore),
                     Pickled(vs.embeddings)>>

NumDumps == 3

\* what a stop of the process leaves of a file still open for writing: a
\* prefix of what was dumped, possibly ending inside an object
TornPrefixes(f) ==
    {[exists |-> TRUE, objs |-> SubSeq(f.objs, 1, kt[1]), torn |-> kt[2]] :
        kt \in {x \in (0..Len(f.objs)) \X BOOLEAN : x[2] => x[1] < NumDumps}}

\* pickle.load succeeds for the n-th object of the file
CanLoad(f, n) == f.exists /\ Len(f.objs) >= n

\* FAISS(index=..., docstore=..., index_to_docstore_id=..., embedding_function=...)
FAISS(idx, docstore, ids, provider) ==
    [kind |-> "FAISS", index |-> idx, docstore |-> docstore,
     index_to_docstore_id |-> ids, embeddings |-> provider]

\* FAISS.from_documents: one vector per chunk, a fresh docstore id per chunk
from_documents(ds, provider) ==
    LET ids == [i \in 1..Len(ds) |-> <<provider.inst, i>>]
    IN FAISS([i \in 1..Len(ds) |-> embed_query(provider, ds[i])],
             [d \in {ids[i] : i \in 1..Len(ds)} |->
                 ds[CHOOSE i \in 1..Len(ds) : ids[i] = d]],
             ids, provider)

\* variant: the provider pickled into the file is used when it is there
load_faiss_index_pickled_provider(idx, f, provider) ==
    FAISS(idx, f.objs[2].pickled, f.objs[1].pickled,
          IF Len(f.objs) >= 3 THEN f.objs[3].pickled ELSE provider)

\* the objects load_faiss_index reads from index.pkl, and the store it builds
load_faiss_index_result(idx, f, provider) ==
    FAISS(idx, f.objs[2].pickled, f.objs[1].pickled, provider)

\* ------------------------------------------------------------- retrieval
TopK == 4

RECURSIVE Nearest(_, _, _, _)
Nearest(vs, qv, left, k) ==
    IF k = 0 \/ left = {} THEN <<>>
    ELSE LET best == CHOOSE i \in left : \A j \in left :
                        \/ Distance(vs.index[i], qv) < Distance(vs.index[j], qv)
                        \/ /\ Distance(vs.index[i], qv) = Distance(vs.index[j], qv)
                           /\ i <= j
         IN <<vs.docstore[vs.index_to_docstore_id[best]]>>
                \o Nearest(vs, qv, left \ {best}, k - 1)

\* retriever.invoke(inputs): the TopK nearest chunks, nearest first
invoke(vs, q) ==
    Nearest(vs, embed_query(vs.embeddings, q), DOMAIN vs.index, TopK)

\* ------------------------------------------------------------------ Init
Init ==
    /\ source \in Documents
    /\ faissFile = NoFile
    /\ pklFile = NoFile
    /\ byteStore = {}
    /\ pc = "down"
    /\ starts = 0
    /\ path = "none"
    /\ docs = <<>>
    /\ index = None
    /\ vectorstore = None
    /\ retriever = None
    /\ err = None
    /\ diskAtCall = [faiss |-> NoFile, pkl |-> NoFile]
    /\ readDoc = FALSE
    /\ built = FALSE
    /\ assigned = 0
    /\ saved = None
    /\ rpc = [r \in Reqs |-> "idle"]
    /\ loop = 0
    /\ prompt = [r \in Reqs |-> None]
    /\ sent = [r \in Reqs |-> 0]
    /\ reply = [r \in Reqs |-> None]
    /\ response = [r \in Reqs |-> None]
    /\ waiting = [r \in Reqs |-> {}]

\* process memory of a newly started interpreter (module level, lines 15-32)
FreshProcess ==
    /\ path' = "none"
    /\ docs' = <<>>
    /\ index' = None
    /\ vectorstore' = None
    /\ retriever' = None
    /\ err' = None
    /\ readDoc' = FALSE
    /\ built' = FALSE
    /\ assigned' = 0
    /\ rpc' = [r \in Reqs |-> "idle"]
    /\ loop' = 0
    /\ prompt' = [r \in Reqs |-> None]
    /\ sent' = [r \in Reqs |-> 0]
    /\ reply' = [r \in Reqs |-> None]
    /\ response' = [r \in Reqs |-> None]
    /\ waiting' = [r \in Reqs |-> {}]

\* ---------------------------------------------------------------- startup
\* on_startup -> load_and_embed_pdfs -> embed_file(pdf_file) is entered
on_startup ==
    /\ pc = "down"
    /\ starts < MaxStarts
    /\ starts' = starts + 1
    /\ pc' = "embed_file"
    /\ FreshProcess
    /\ diskAtCall' = [faiss |-> faissFile, pkl |-> pklFile]
    /\ UNCHANGED <<diskVars, saved>>

\* variant: the hit also requires index.pkl
CacheHitBothFiles == faissFile.exists /\ pklFile.exists

\* line 59: os.path.exists(<cache dir>/index.faiss)
CacheHit == faissFile.exists

embed_file_check ==
    /\ pc = "embed_file"
    /\ IF CacheHit
          THEN path' = "hit" /\ pc' = "read_index"
          ELSE path' = "miss" /\ pc' = "load_and_split"
    /\ UNCHANGED <<diskVars, starts, docs, index, vectorstore, retriever, err,
                   diskAtCall, readDoc, built, assigned, saved, reqVars>>

\* startup ends with an exception: nothing is caught on the way up
Raise(fn, exc) ==
    /\ pc' = "failed"
    /\ err' = [kind |-> "error", raisedIn |-> fn, exc |-> exc]

\* line 42: faiss.read_index
load_faiss_index_read ==
    /\ pc = "read_index"
    /\ IF faissFile.whole
          THEN /\ index' = [kind |-> "index", vectors |-> faissFile.vectors]
               /\ pc' = "load_tables"
               /\ err' = err
          ELSE /\ Raise("load_faiss_index", "RuntimeError")
               /\ index' = index
    /\ UNCHANGED <<diskVars, starts, path, docs, vectorstore, retriever,
                   diskAtCall, readDoc, built, assigned, saved, reqVars>>

\* variant: an unreadable index.pkl falls back to rebuilding the index
load_faiss_index_tables_fallback ==
    /\ pc = "load_tables"
    /\ IF ~(CanLoad(pklFile, 1) /\ CanLoad(pklFile, 2))
          THEN /\ pc' = "load_and_split"
               /\ vectorstore' = vectorstore
          ELSE /\ vectorstore' = FAISS(index.vectors, pklFile.objs[2].pickled,
                                        pklFile.objs[1].pickled,
                                        HuggingFaceEmbeddings(starts))
               /\ pc' = "loaded"
    /\ UNCHANGED <<diskVars, starts, path, docs, index, retriever, err,
                   diskAtCall, readDoc, built, assigned, saved, reqVars>>

\* lines 43-53: open index.pkl, two pickle.load, FAISS(...)
load_faiss_index_tables ==
    /\ pc = "load_tables"
    /\ IF ~pklFile.exists
          THEN /\ Raise("load_faiss_index", "FileNotFoundError")
               /\ vectorstore' = vectorstore
          ELSE IF ~(CanLoad(pklFile, 1) /\ CanLoad(pklFile, 2))
          THEN /\ Raise("load_faiss_index", "UnpicklingError")
               /\ vectorstore' = vectorstore
          ELSE /\ vectorstore' = load_faiss_index_result(index.vectors, pklFile,
                                        HuggingFaceEmbeddings(starts))
               /\ pc' = "loaded"
               /\ err' = err
    /\ UNCHANGED <<diskVars, starts, path, docs, index, retriever,
                   diskAtCall, readDoc, built, assigned, saved, reqVars>>

\* variant: the hit branch lacks its return and runs on into the build
embed_file_return_fallthrough ==
    /\ pc \in {"loaded", "saved"}
    /\ pc' = IF pc = "loaded" THEN "load_and_split" ELSE "returned"
    /\ UNCHANGED <<diskVars, procRest, reqVars>>

\* lines 68-69 and 91-92: vectorstore.as_retriever() is returned
embed_file_return ==
    /\ pc \in {"loaded", "saved"}
    /\ pc' = "returned"
    /\ UNCHANGED <<diskVars, procRest, reqVars>>

\* variant: without the global statement the assignment is to a local
load_and_embed_pdfs_local ==
    /\ pc = "returned"
    /\ pc' = "serving"
    /\ docs' = <<>>
    /\ index' = None
    /\ vectorstore' = None
    /\ UNCHANGED <<diskVars, starts, path, retriever, err, diskAtCall, readDoc,
                   built, assigned, saved, reqVars>>

\* lines 122-125: global retriever; retriever = embed_file(pdf_file); the
\* startup handler is over and the server accepts requests
load_and_embed_pdfs ==
    /\ pc = "returned"
    /\ retriever' = vectorstore
    /\ assigned' = assigned + 1
    /\ pc' = "serving"
    /\ docs' = <<>>
    /\ index' = None
    /\ vectorstore' = None
    /\ UNCHANGED <<diskVars, starts, path, err, diskAtCall, readDoc, built,
                   saved, reqVars>>

\* lines 72-79: loader.load_and_split reads the source document
embed_file_load_and_split ==
    /\ pc = "load_and_split"
    /\ docs' = source
    /\ readDoc' = TRUE
    /\ pc' = "from_documents"
    /\ UNCHANGED <<diskVars, starts, path, index, vectorstore, retriever, err,
                   diskAtCall, built, assigned, saved, reqVars>>

\* lines 81-88: embeddings through the byte store, then the new index
embed_file_from_documents ==
    /\ pc = "from_documents"
    /\ byteStore' = byteStore \cup {docs[i] : i \in 1..Len(docs)}
    /\ vectorstore' = from_documents(docs, HuggingFaceEmbeddings(starts))
    /\ built' = TRUE
    /\ pc' = "write_index"
    /\ UNCHANGED <<source, faissFile, pklFile, starts, path, docs, index,
                   retriever, err, diskAtCall, readDoc, assigned, saved, reqVars>>

\* line 35: faiss.write_index creates the file ...
save_faiss_index_create ==
    /\ pc = "write_index"
    /\ faissFile' = [exists |-> TRUE, whole |-> FALSE, vectors |-> <<>>]
    /\ pc' = "writing_index"
    /\ UNCHANGED <<source, pklFile, byteStore, procRest, reqVars>>

\* ... and fills it with vectorstore.index
save_faiss_index_write ==
    /\ pc = "writing_index"
    /\ faissFile' = [exists |-> TRUE, whole |-> TRUE, vectors |-> vectorstore.index]
    /\ pc' = "open_pkl"
    /\ UNCHANGED <<source, pklFile, byteStore, procRest, reqVars>>

\* line 36: open(index.pkl, "wb") creates or truncates the file
save_faiss_index_open ==
    /\ pc = "open_pkl"
    /\ pklFile' = [exists |-> TRUE, objs |-> <<>>, torn |-> FALSE]
    /\ pc' = "dump"
    /\ UNCHANGED <<source, faissFile, byteStore, procRest, reqVars>>

\* lines 37-39: the next pickle.dump
save_faiss_index_dump ==
    /\ pc = "dump"
    /\ Len(pklFile.objs) < NumDumps
    /\ pklFile' = [pklFile EXCEPT
                     !.objs = Append(@, PickleOrder(vectorstore)[Len(@) + 1])]
    /\ UNCHANGED <<source, faissFile, byteStore, pc, procRest, reqVars>>

\* end of the with block: the file is closed, save_faiss_index returns
save_faiss_index_close ==
    /\ pc = "dump"
    /\ Len(pklFile.objs) = NumDumps
    /\ saved' = vectorstore
    /\ pc' = "saved"
    /\ UNCHANGED <<diskVars, starts, path, docs, index, vectorstore, retriever,
                   err, diskAtCall, readDoc, built, assigned, reqVars>>

\* The process stops (kill, power loss, or exit after a failed startup).
\* Files open for writing keep only what reached the disk.
Stop ==
    /\ pc # "down"
    /\ pc' = "down"
    /\ IF pc = "dump"
          THEN pklFile' \in TornPrefixes(pklFile)
          ELSE pklFile' = pklFile
    /\ FreshProcess
    /\ UNCHANGED <<source, faissFile, byteStore, starts, diskAtCall, saved>>

\* --------------------------------------------------------------- requests
Statuses == {200, 301, 503}
Bodies   == {"overloaded", "{}", "{\"response\": \"ok\"}"}
TransportErrors == {"All connection attempts failed", "ReadTimeout"}
RetrievalErrors == {"embedding failed"}
NoneTypeError   == "'NoneType' object has no attribute 'invoke'"
JSONDecodeError == "Expecting value: line 1 column 1 (char 0)"
KeyError        == "'response'"

\* what the inference service can do with one POST
Replies ==
    [kind : {"http"}, status : Statuses, body : Bodies]
        \cup [kind : {"exc"}, msg : TransportErrors]

HTTPException(status, detail) ==
    [kind |-> "HTTPException", status_code |-> status, detail |-> detail]
JSONResponse(content) ==
    [kind |-> "JSONResponse", status_code |-> 200, content |-> content]
Exception(msg) == [kind |-> "Exception", msg |-> msg]
Return(v) == [kind |-> "return", value |-> v]

\* response.raise_for_status() lets the reply through
is_success(status) == status >= 200 /\ status < 300

\* response.json(): the parsed dict, or the decoder's error
json(body) ==
    CASE body = "{}" -> [ok |-> TRUE, dict |-> <<>>]
      [] body = "{\"response\": \"ok\"}" ->
             [ok |-> TRUE, dict |-> [response |-> "ok"]]
      [] OTHER -> [ok |-> FALSE, msg |-> JSONDecodeError]

\* variant: result.get('response') instead of result['response']
query_ollama_get(rep) ==
    IF rep.kind = "exc" THEN HTTPException(500, rep.msg)
    ELSE IF ~is_success(rep.status) THEN HTTPException(rep.status, rep.body)
    ELSE IF ~json(rep.body).ok THEN HTTPException(500, json(rep.body).msg)
    ELSE IF "response" \notin DOMAIN json(rep.body).dict THEN Return("null")
    ELSE Return(json(rep.body).dict.response)

\* lines 104-112: how query_ollama ends, given the service's reply
query_ollama(rep) ==
    IF rep.kind = "exc" THEN HTTPException(500, rep.msg)
    ELSE IF ~is_success(rep.status) THEN HTTPException(rep.status, rep.body)
    ELSE IF ~json(rep.body).ok THEN HTTPException(500, json(rep.body).msg)
    ELSE IF "response" \notin DOMAIN json(rep.body).dict
            THEN HTTPException(500, KeyError)
    ELSE Return(json(rep.body).dict.response)

\* variant: the handler lacks "except HTTPException: raise e"
query_doc_wrap_all(outcome) ==
    CASE outcome.kind = "return" -> JSONResponse(outcome.value)
      [] outcome.kind = "HTTPException" -> HTTPException(500, outcome.detail)
      [] outcome.kind = "Exception" -> HTTPException(500, outcome.msg)

\* lines 133-139: how query_doc ends, given how process_query ended
query_doc(outcome) ==
    CASE outcome.kind = "return" -> JSONResponse(outcome.value)
      [] outcome.kind = "HTTPException" -> outcome
      [] outcome.kind = "Exception" -> HTTPException(500, outcome.msg)

\* line 27-29: RAG_PROMPT_TEMPLATE.format(question=..., context=...)
RAG_PROMPT_TEMPLATE(question, context) ==
    [kind |-> "prompt", question |-> question, context |-> context]

\* lines 132-134: the handler of POST /redhat/query starts running; the
\* server takes requests once the startup handler (line 127) has returned
query_doc_begin(r, q) ==
    /\ pc = "serving"
    /\ rpc[r] = "idle"
    /\ loop = 0
    /\ loop' = r
    /\ rpc' = [rpc EXCEPT ![r] = "invoke"]
    /\ prompt' = [prompt EXCEPT ![r] = [kind |-> "inputs", inputs |-> q]]
    /\ waiting' = [waiting EXCEPT ![r] = {x \in Reqs : rpc[x] = "await"}]
    /\ UNCHANGED <<diskVars, procVars, sent, reply, response>>

\* lines 115-117: retrieval and the prompt; retrieval may raise
process_query_invoke(r) ==
    /\ rpc[r] = "invoke"
    /\ loop = r
    /\ \/ /\ retriever # None
          /\ prompt' = [prompt EXCEPT ![r] =
                 RAG_PROMPT_TEMPLATE(@.inputs, invoke(retriever, @.inputs))]
          /\ rpc' = [rpc EXCEPT ![r] = "post"]
          /\ UNCHANGED <<loop, response>>
       \/ /\ \E msg \in IF retriever = None THEN {NoneTypeError}
                                            ELSE RetrievalErrors :
                response' = [response EXCEPT ![r] = query_doc(Exception(msg))]
          /\ rpc' = [rpc EXCEPT ![r] = "done"]
          /\ loop' = 0
          /\ prompt' = [prompt EXCEPT ![r] = None]
    /\ UNCHANGED <<diskVars, procVars, sent, reply, waiting>>

\* variant: a blocking HTTP call keeps the event loop
query_ollama_post_blocking(r) ==
    /\ rpc[r] = "post"
    /\ loop = r
    /\ sent' = [sent EXCEPT ![r] = @ + 1]
    /\ prompt' = [prompt EXCEPT ![r] = None]
    /\ rpc' = [rpc EXCEPT ![r] = "await"]
    /\ UNCHANGED <<diskVars, procVars, loop, reply, response, waiting>>

\* line 105: the POST is sent and the coroutine awaits the reply
query_ollama_post(r) ==
    /\ rpc[r] = "post"
    /\ loop = r
    /\ sent' = [sent EXCEPT ![r] = @ + 1]
    /\ prompt' = [prompt EXCEPT ![r] = None]
    /\ rpc' = [rpc EXCEPT ![r] = "await"]
    /\ loop' = 0
    /\ UNCHANGED <<diskVars, procVars, reply, response, waiting>>

\* variant: a failed call is sent once more
query_ollama_resume_retry(r, rep) ==
    /\ rpc[r] = "await"
    /\ loop \in {0, r}
    /\ IF query_ollama(rep).kind = "HTTPException" /\ sent[r] < 2
          THEN /\ rpc' = [rpc EXCEPT ![r] = "post"]
               /\ loop' = r
               /\ UNCHANGED <<reply, response, waiting>>
          ELSE /\ reply' = [reply EXCEPT ![r] = rep]
               /\ response' = [response EXCEPT ![r] = query_doc(query_ollama(rep))]
               /\ rpc' = [rpc EXCEPT ![r] = "done"]
               /\ loop' = 0
               /\ waiting' = [x \in Reqs |-> IF rpc[x] = "done" THEN waiting[x]
                                                                ELSE waiting[x] \ {r}]
    /\ UNCHANGED <<diskVars, procVars, prompt, sent>>

\* lines 105-112, 119, 135-139: the service's reply, its failure or the
\* 120 s timeout resumes the coroutine, and the request ends
query_ollama_resume(r, rep) ==
    /\ rpc[r] = "await"
    /\ loop = 0
    /\ reply' = [reply EXCEPT ![r] = rep]
    /\ response' = [response EXCEPT ![r] = query_doc(query_ollama(rep))]
    /\ rpc' = [rpc EXCEPT ![r] = "done"]
    /\ waiting' = [x \in Reqs |-> IF rpc[x] = "done" THEN waiting[x]
                                                     ELSE waiting[x] \ {r}]
    /\ UNCHANGED <<diskVars, procVars, loop, prompt, sent>>

Serve ==
    \/ \E r \in Reqs, q \in Texts : query_doc_begin(r, q)
    \/ \E r \in Reqs : process_query_invoke(r)
    \/ \E r \in Reqs : query_ollama_post(r)
    \/ \E r \in Reqs, rep \in Replies : query_ollama_resume(r, rep)

Startup ==
    \/ on_startup
    \/ embed_file_check
    \/ load_faiss_index_read
    \/ load_faiss_index_tables
    \/ embed_file_load_and_split
    \/ embed_file_from_documents
    \/ save_faiss_index_create
    \/ save_faiss_index_write
    \/ save_faiss_index_open
    \/ save_faiss_index_dump
    \/ save_faiss_index_close
    \/ embed_file_return
    \/ load_and_embed_pdfs

\* The cache and the startup path, for every source document.
StartupNext == Startup \/ Stop

StartupSpec == Init /\ [][StartupNext]_vars

\* The whole server: startup, stops and restarts, and the query requests.
\* What a request does with the retrieved chunks does not depend on the
\* document, so one document of MaxChunks chunks stands for all.
LongestDocument == [i \in 1..MaxChunks |-> ((i - 1) % NumTexts) + 1]

ServeInit == Init /\ source = LongestDocument

Next == Startup \/ Serve \/ Stop

ServeSpec == ServeInit /\ [][Next]_vars

\* ================================================================= claims
Disk == [faiss |-> faissFile, pkl |-> pklFile]

\* C1: embed_file takes the cache-hit path if and only if index.faiss
\* existed when it was called, whatever index.pkl and the other files of
\* the cache directory were.
C1_HitIffIndexFile ==
    path # "none" => (path = "hit" <=> diskAtCall.faiss.exists)

\* a hit without index.pkl, the byte store's files being there
C1_Witness ==
    path = "hit" /\ ~diskAtCall.pkl.exists /\ byteStore # {}

\* C2: on the cache-hit path the source document is not read, no index is
\* built and index.faiss and index.pkl stay as they were; every startup
\* after a completed cache-miss startup takes that path.
C2_HitPathReadsAndWritesNothing ==
    /\ path = "hit" => /\ ~readDoc
                       /\ ~built
                       /\ Disk = diskAtCall
    /\ (saved # None /\ path # "none" /\ starts > saved.embeddings.inst)
           => path = "hit"

\* a second startup that went through the hit path up to serving
C2_Witness ==
    /\ pc = "serving"
    /\ path = "hit"
    /\ saved # None
    /\ starts > saved.embeddings.inst

\* C3: load_faiss_index after a save_faiss_index that returned gives the
\* saved index structure, id-mapping and docstore, bound to the provider
\* passed to the load, and answers every query as the saved index does.
C3_SaveLoadRoundTrip ==
    (pc = "loaded" /\ saved # None) =>
        /\ vectorstore.index = saved.index
        /\ vectorstore.index_to_docstore_id = saved.index_to_docstore_id
        /\ vectorstore.docstore = saved.docstore
        /\ vectorstore.embeddings = HuggingFaceEmbeddings(starts)
        /\ \A q \in Texts :
              invoke(vectorstore, q)
                  = invoke([saved EXCEPT !.embeddings = vectorstore.embeddings], q)

\* a store of several chunks loaded under another provider than the saved one
C3_Witness ==
    /\ pc = "loaded"
    /\ saved # None
    /\ Len(vectorstore.index) > 1
    /\ vectorstore.embeddings # saved.embeddings
    /\ pklFile.objs[3].pickled = saved.embeddings

\* the side tables of index.pkl belong to the index of index.faiss
TablesCover(ff, pf) ==
    /\ Len(pf.objs) >= 2
    /\ DOMAIN pf.objs[1].pickled = DOMAIN ff.vectors
    /\ \A i \in DOMAIN pf.objs[1].pickled :
          pf.objs[1].pickled[i] \in DOMAIN pf.objs[2].pickled

\* C4: in every state of the cache directory either index.faiss and an
\* index.pkl holding the id-mapping and the docstore of that index are both
\* on disk, or neither file is.
C4_AtomicUnit ==
    \/ ~faissFile.exists /\ ~pklFile.exists
    \/ /\ faissFile.exists
       /\ faissFile.whole
       /\ pklFile.exists
       /\ TablesCover(faissFile, pklFile)

\* index.pkl is not what a save_faiss_index that returned leaves
Corrupt(f) == f.exists /\ (f.torn \/ Len(f.objs) < NumDumps)

\* index.pkl does not hold the two objects load_faiss_index reads
SideTablesUnreadable(f) == f.exists /\ Len(f.objs) < 2

\* startup through the hit path has not got past load_faiss_index, and has
\* read, built, written and assigned nothing
StartupStoppedInLoad ==
    /\ pc \in {"read_index", "load_tables", "failed"}
    /\ pc = "failed" => err.raisedIn = "load_faiss_index"
    /\ retriever = None
    /\ assigned = 0
    /\ ~readDoc
    /\ ~built
    /\ Disk = diskAtCall

\* C5 as stated: with index.faiss present and index.pkl missing or corrupt
\* in any way, startup fails inside load_faiss_index.
C5_AnyCorruptionFails ==
    (path = "hit" /\ (~diskAtCall.pkl.exists \/ Corrupt(diskAtCall.pkl)))
        => StartupStoppedInLoad

\* C5: with index.faiss present and index.pkl missing, or cut short within
\* its id-mapping or docstore, startup fails with an error raised from
\* load_faiss_index: no rebuild, no read of the source document, no write to
\* the cache files, retriever left unset.
C5_UnreadableSideTablesFail ==
    (path = "hit" /\ (~diskAtCall.pkl.exists \/ SideTablesUnreadable(diskAtCall.pkl)))
        => StartupStoppedInLoad

\* startup failed on an index.pkl cut short inside the docstore
C5_Witness ==
    /\ pc = "failed"
    /\ path = "hit"
    /\ err.exc = "UnpicklingError"
    /\ Len(diskAtCall.pkl.objs) = 1
    /\ diskAtCall.pkl.torn

C6_State ==
    /\ assigned <= 1
    /\ pc = "serving" => (assigned = 1 /\ retriever # None)
    /\ pc # "serving" => \A r \in Reqs : rpc[r] = "idle"
    /\ \A r \in Reqs : rpc[r] = "invoke" => retriever # None
    /\ \A r \in Reqs : rpc[r] = "done" /\ sent[r] = 0
                           => response[r].detail # NoneTypeError

\* C6: retriever is assigned once, by startup, before any request is
\* handled; no request reads it while it is None, and no step of a request
\* assigns it.
C6_RetrieverSetOnceAtStartup ==
    /\ []C6_State
    /\ [][(pc = "serving" /\ pc' = "serving")
              => (retriever' = retriever /\ assigned' = assigned)]_vars

\* one request answered and one failed, the retriever being set
C6_Witness ==
    /\ pc = "serving"
    /\ assigned = 1
    /\ \E r1, r2 \in Reqs : /\ rpc[r1] = "done"
                            /\ response[r1].kind = "JSONResponse"
                            /\ rpc[r2] = "done"
                            /\ response[r2].kind = "HTTPException"

\* C7: a request whose inference call got a non-2xx reply with status s and
\* body b ends with an error of status s and detail b.
C7_UpstreamStatusPropagated ==
    \A r \in Reqs :
        (/\ rpc[r] = "done"
         /\ reply[r].kind = "http"
         /\ (reply[r].status < 200 \/ reply[r].status > 299))
            => /\ response[r].kind = "HTTPException"
               /\ response[r].status_code = reply[r].status
               /\ response[r].detail = reply[r].body

\* upstream 503 "overloaded" answered with 503 "overloaded"
C7_Witness ==
    \E r \in Reqs :
        /\ rpc[r] = "done"
        /\ reply[r] = [kind |-> "http", status |-> 503, body |-> "overloaded"]
        /\ response[r].status_code = 503

\* C8: a request that fails otherwise (transport error or timeout, a 2xx
\* reply that is no JSON or has no 'response' field, an exception in
\* retrieval) ends with status 500 and the exception's message as detail;
\* every finished request has an answer or an error.
C8_OtherFailuresAre500 ==
    \A r \in Reqs : rpc[r] = "done" =>
        /\ response[r].kind \in {"JSONResponse", "HTTPException"}
        /\ sent[r] = 0 =>
              /\ response[r].kind = "HTTPException"
              /\ response[r].status_code = 500
              /\ response[r].detail \in RetrievalErrors
        /\ reply[r].kind = "exc" =>
              response[r] = HTTPException(500, reply[r].msg)
        /\ (reply[r].kind = "http" /\ reply[r].status = 200) =>
              CASE reply[r].body = "{}" ->
                       response[r] = HTTPException(500, KeyError)
                [] reply[r].body = "overloaded" ->
                       response[r] = HTTPException(500, JSONDecodeError)
                [] OTHER -> response[r] = JSONResponse("ok")

\* a timeout, a reply without 'response' and a failed retrieval all seen
C8_Witness ==
    \E r1, r2 \in Reqs :
        /\ rpc[r1] = "done"
        /\ reply[r1] = [kind |-> "exc", msg |-> "ReadTimeout"]
        /\ response[r1].status_code = 500
        /\ rpc[r2] = "done"
        /\ \/ sent[r2] = 0
           \/ reply[r2] = [kind |-> "http", status |-> 200, body |-> "{}"]

\* C9: while a request is suspended on the inference service it does not
\* hold the event loop, and each other request can take its next step.
C9_SuspendedDoesNotBlock ==
    \A r1, r2 \in Reqs : (r1 # r2 /\ rpc[r1] = "await") =>
        /\ loop # r1
        /\ (rpc[r2] = "idle" /\ loop = 0)
               => \A q \in Texts : ENABLED query_doc_begin(r2, q)
        /\ rpc[r2] = "invoke" => ENABLED process_query_invoke(r2)
        /\ rpc[r2] = "post" => ENABLED query_ollama_post(r2)
        /\ (rpc[r2] = "await" /\ loop = 0)
               => \A rep \in Replies : ENABLED query_ollama_resume(r2, rep)

\* a request started and was answered while another stayed suspended
C9_Witness ==
    \E r1, r2 \in Reqs :
        /\ rpc[r1] = "await"
        /\ rpc[r2] = "done"
        /\ sent[r2] = 1
        /\ response[r2].kind = "JSONResponse"
        /\ r1 \in waiting[r2]

C10_State ==
    \A r \in Reqs :
        /\ sent[r] <= 1
        /\ rpc[r] \in {"idle", "invoke", "post"} => sent[r] = 0
        /\ rpc[r] = "await" => sent[r] = 1

\* C10: a request sends at most one POST to the inference service; once it
\* has ended, with an answer or an error, it sends nothing more.
C10_NoRetries ==
    /\ []C10_State
    /\ [][\A r \in Reqs : (rpc[r] = "done" /\ pc' = "serving")
              => (rpc'[r] = "done" /\ sent'[r] = sent[r])]_vars

\* a request that failed after its one POST
C10_Witness ==
    \E r \in Reqs :
        /\ rpc[r] = "done"
        /\ sent[r] = 1
        /\ reply[r].kind = "exc"
        /\ response[r].status_code = 500
====
